---- MODULE Spec2Model ----
(***************************************************************************)
(* Finger Prince: the renderer's state hooks (useCrawl, useSearch), the    *)
(* App handlers that drive them, and the Electron host's Python sidecar.    *)
(*                                                                         *)
(* SpecCrawl    useCrawl, its in-flight requests and the two transports     *)
(*              (Electron bridge, REST).                                    *)
(* SpecSearch   useSearch, likewise.                                        *)
(* Spec         both hooks, as App mounts them.                             *)
(* SpecSidecar  the Electron main process' sidecar module and its child     *)
(*              processes.                                                  *)
(* SpecMain     the Electron main process: app events, windows, sidecar.    *)
(***************************************************************************)
EXTENDS Integers, Sequences, FiniteSets, TLC

VARIABLES
    host,           \* "electron" iff window.fingerPrince exists, else "web"
    crawl,          \* useCrawl's state {status, message, postsIndexed, error}
    crawlPending,   \* startCrawl calls awaiting their bridge call / fetch
    crawlCalls,     \* number of startCrawl calls that issued a request
    crawlLast,      \* history: the last useCrawl operation and its input
    search,         \* useSearch's state {data, isLoading, error}
    searchPending,  \* search calls awaiting their bridge call / fetch
    searchCalls,    \* number of search calls that issued a request
    searchLast,     \* history: the last useSearch operation and its input
    pythonProcess,  \* sidecar.ts: the module's handle, 0 for null, else a pid
    proc,           \* every child ever spawned: pid -> lifecycle state
    sigterm,        \* pid -> number of SIGTERMs sent to it
    sidecarCall,    \* history: the host's last call, "none", "start" or "stop"
    platform,       \* process.platform: "darwin" or another
    app,            \* the Electron app: "launching", "ready" or "quit"
    mainWindow,     \* main process: the last window created, 0 for null
    openWindows,    \* the windows that are open
    boardPosts,     \* DCBoard: the posts prop, in display order
    boardLoading,   \* DCBoard: the isLoading prop
    expandedId      \* DCBoard: useState, null or the id of a post

rendererVars == <<host, crawl, crawlPending, crawlCalls, crawlLast,
                  search, searchPending, searchCalls, searchLast>>
sidecarVars == <<pythonProcess, proc, sigterm, sidecarCall>>
mainVars == <<platform, app, mainWindow, openWindows>>
boardVars == <<boardPosts, boardLoading, expandedId>>
vars == <<rendererVars, sidecarVars, mainVars, boardVars>>

(***************************************************************************)
(* Bounds of the model.                                                    *)
(***************************************************************************)
MaxCrawls == 2
MaxSearches == 2
MaxPosts == 2
MaxSpawns == 3
MaxWindows == 4
MaxBoardPosts == 2

(***************************************************************************)
(* JavaScript values.  Every value a hook stores is tagged with its type,  *)
(* so that null, undefined, numbers, strings and objects stay distinct.    *)
(***************************************************************************)
Undefined == <<"undefined">>
Null == <<"null">>
Num(n) == <<"number", n>>
Str(s) == <<"string", s>>
Obj(r) == <<"object", r>>
Arr(s) == <<"array", s>>

\* a ?? b
Coalesce(a, b) == IF a = Null \/ a = Undefined THEN b ELSE a

(***************************************************************************)
(* Strings the user types are sequences of characters, so that trim() is   *)
(* computed.                                                               *)
(***************************************************************************)
WhiteSpace == {" "}

RECURSIVE TrimStart(_)
TrimStart(s) ==
    IF s # <<>> /\ Head(s) \in WhiteSpace THEN TrimStart(Tail(s)) ELSE s

RECURSIVE TrimEnd(_)
TrimEnd(s) ==
    IF s # <<>> /\ s[Len(s)] \in WhiteSpace
    THEN TrimEnd(SubSeq(s, 1, Len(s) - 1)) ELSE s

Trim(s) == TrimEnd(TrimStart(s))

\* !s.trim()
Blank(s) == Trim(s) = <<>>

GallIds == {<<>>, <<" ">>, <<"p">>, <<"g">>}
Queries == {<<>>, <<" ">>, <<"q">>}

\* What a rejected promise carries: an Error with a message, or another value.
Thrown == {[isError |-> TRUE, message |-> "Failed to fetch"],
           [isError |-> FALSE, message |-> "rejected"]}

\* A response that is not OK: its status and body text.
BadResponses == {[status |-> 502, body |-> "CrawlUnreachable"]}

(***************************************************************************)
(* The crawl operation and its two transports.                             *)
(***************************************************************************)
\* crawl(galleryId, maxPages) -> { postsIndexed, message }; partial success
\* is told by the message.
CrawlMessages == {"indexed", "partial: 1 page failed"}
CrawlResults ==
    [postsIndexed : {Num(n) : n \in 0..MaxPosts}, message : {Str(m) : m \in CrawlMessages}]

\* ipcRenderer.invoke("crawl:start") resolves to { postsIndexed, message }.
IpcCrawlResult(o) == [postsIndexed |-> o.postsIndexed, message |-> o.message]

\* POST /crawl answers { posts_indexed, message }.
RestCrawlJson(o) == [posts_indexed |-> o.postsIndexed, message |-> o.message]

(***************************************************************************)
(* useCrawl.                                                               *)
(***************************************************************************)
CrawlIdle ==
    [status |-> "idle", message |-> Str(""), postsIndexed |-> Num(0), error |-> Null]

\* The text of the state set when a crawl starts (a fixed Korean string).
CrawlRunning ==
    [status |-> "running", message |-> Str("crawl starting..."),
     postsIndexed |-> Num(0), error |-> Null]

\* `완료: ${n}개 게시물 인덱싱`
DoneTemplate(n) == Str("done: " \o ToString(n[2]) \o " posts indexed")

\* The Electron branch of startCrawl after the bridge call resolved.
CrawlDoneBridge(result) ==
    [status |-> "done", message |-> DoneTemplate(result.postsIndexed),
     postsIndexed |-> result.postsIndexed, error |-> Null]

\* CrawlDoneRest with a count of zero taken for a failed crawl.
CrawlDoneRestZeroFails(json) ==
    IF json.posts_indexed = Num(0)
    THEN [status |-> "error", message |-> Str(""), postsIndexed |-> Num(0),
          error |-> Str("crawl failed")]
    ELSE [status |-> "done", message |-> json.message,
          postsIndexed |-> json.posts_indexed, error |-> Null]

\* The REST branch of startCrawl after response.json().
CrawlDoneRest(json) ==
    [status |-> "done", message |-> json.message,
     postsIndexed |-> json.posts_indexed, error |-> Null]

\* err instanceof Error ? err.message : fallback
ErrorText(err, fallback) == Str(IF err.isError THEN err.message ELSE fallback)

\* CrawlCatch keeping the message and count of the state it finds.
CrawlCatchKeepsCount(err) ==
    [crawl EXCEPT !.status = "error", !.error = ErrorText(err, "crawl failed")]

\* The catch block of startCrawl.
CrawlCatch(err) ==
    [status |-> "error", message |-> Str(""), postsIndexed |-> Num(0),
     error |-> ErrorText(err, "crawl failed")]

\* new Error(`Crawl failed (${response.status}): ${body}`)
CrawlHttpError(resp) ==
    [isError |-> TRUE,
     message |-> "Crawl failed (" \o ToString(resp.status) \o "): " \o resp.body]

NoCrawlOp == [op |-> "none", id |-> 0, result |-> Null]

\* The body of startCrawl from its first setState on: the state becomes
\* running and one request (bridge call or fetch) is issued.
IssueCrawl(g) ==
    /\ crawl' = CrawlRunning
    /\ crawlCalls' = crawlCalls + 1
    /\ crawlPending' = crawlPending \cup
           {[id |-> crawlCalls + 1, gallId |-> g, maxPages |-> 5]}
    /\ crawlLast' = [op |-> "start", id |-> crawlCalls + 1, result |-> Null]

\* useCrawl.reset
ResetCrawlState ==
    /\ crawl' = CrawlIdle
    /\ crawlLast' = [op |-> "reset", id |-> 0, result |-> Null]

\* startCrawl(gallId), called by any user of the hook.
StartCrawl(g) ==
    /\ crawlCalls < MaxCrawls
    /\ IF Blank(g)
       THEN UNCHANGED <<crawl, crawlCalls, crawlPending, crawlLast>>
       ELSE IssueCrawl(g)
    /\ UNCHANGED <<host, search, searchPending, searchCalls, searchLast, sidecarVars, mainVars, boardVars>>

\* reset(), called by any user of the hook.
ResetCrawl ==
    /\ ResetCrawlState
    /\ UNCHANGED <<crawlCalls, crawlPending>>
    /\ UNCHANGED <<host, search, searchPending, searchCalls, searchLast, sidecarVars, mainVars, boardVars>>

\* App's crawl button: disabled while running; onClick resets, then starts.
CrawlButtonClick(g) ==
    /\ crawl.status # "running"
    /\ crawlCalls < MaxCrawls
    /\ IF Blank(g)
       THEN ResetCrawlState /\ UNCHANGED <<crawlCalls, crawlPending>>
       ELSE IssueCrawl(g)
    /\ UNCHANGED <<host, search, searchPending, searchCalls, searchLast, sidecarVars, mainVars, boardVars>>

\* A pending startCrawl continues after its await and sets the state `next`.
SettleCrawl(r, next, last) ==
    /\ r \in crawlPending
    /\ crawl' = next
    /\ crawlPending' = crawlPending \ {r}
    /\ crawlLast' = last
    /\ UNCHANGED crawlCalls
    /\ UNCHANGED <<host, search, searchPending, searchCalls, searchLast, sidecarVars, mainVars, boardVars>>

\* window.fingerPrince.crawl resolved.
CrawlBridgeResolve(r, o) ==
    /\ host = "electron"
    /\ SettleCrawl(r, CrawlDoneBridge(IpcCrawlResult(o)),
                   [op |-> "resolve", id |-> r.id, result |-> Obj(o)])

\* window.fingerPrince.crawl rejected.
CrawlBridgeReject(r, err) ==
    /\ host = "electron"
    /\ SettleCrawl(r, CrawlCatch(err), [op |-> "reject", id |-> r.id, result |-> Null])

\* fetch rejected.
CrawlFetchReject(r, err) ==
    /\ host = "web"
    /\ SettleCrawl(r, CrawlCatch(err), [op |-> "reject", id |-> r.id, result |-> Null])

\* The response is not OK: startCrawl throws and catches its own Error.
CrawlResponseNotOk(r, resp) ==
    /\ host = "web"
    /\ SettleCrawl(r, CrawlCatch(CrawlHttpError(resp)),
                   [op |-> "reject", id |-> r.id, result |-> Null])

\* The response is OK.
CrawlResponseOk(r, o) ==
    /\ host = "web"
    /\ SettleCrawl(r, CrawlDoneRest(RestCrawlJson(o)),
                   [op |-> "resolve", id |-> r.id, result |-> Obj(o)])

(***************************************************************************)
(* The search operation and its two transports.                            *)
(***************************************************************************)
Personas == {"aggressive_helper", "fact_checker", "meme_lord", "helpful_sunbae"}

Post1 == [id |-> "1", gallId |-> "g"]

\* What the pipeline returns for a search.  The hook names no persona, so
\* the pipeline applies one of its own; no hit means no answer.  The two
\* smart-search fields may be missing (the plain search result has none).
SearchResults ==
    {o \in [posts : {Arr(<<>>), Arr(<<Post1>>)},
            synthesizedAnswer : {Null, Str("answer")},
            persona : {Str(p) : p \in Personas},
            queryTimeMs : {Num(7)},
            discoveredGalleries : {Undefined, Arr(<<"g">>)},
            postsCrawled : {Undefined, Num(MaxPosts)}] :
        o.posts = Arr(<<>>) => o.synthesizedAnswer = Null}

\* ipcRenderer.invoke("search:query") resolves to the result in the
\* renderer's field names.
IpcSearchResult(o) ==
    [posts |-> o.posts, synthesizedAnswer |-> o.synthesizedAnswer,
     persona |-> o.persona, queryTime |-> o.queryTimeMs,
     discoveredGalls |-> o.discoveredGalleries, postsCrawled |-> o.postsCrawled]

\* POST /smart-search answers in snake_case.
RestSearchJson(o) ==
    [posts |-> o.posts, synthesized_answer |-> o.synthesizedAnswer,
     persona |-> o.persona, query_time |-> o.queryTimeMs,
     discovered_galls |-> o.discoveredGalleries, posts_crawled |-> o.postsCrawled]

(***************************************************************************)
(* useSearch.                                                              *)
(***************************************************************************)
SearchIdle == [data |-> Null, isLoading |-> FALSE, error |-> Null]

SearchLoading == [data |-> Null, isLoading |-> TRUE, error |-> Null]

\* The body of the POST /smart-search request: no persona is named.
SearchRequestBody(q, topK) ==
    [query |-> q, top_k |-> topK, google_results |-> 10, gallery_pages |-> 2]

\* RestToData reading the persona from a field the response does not have.
RestToDataPersonaTypo(json) ==
    [posts |-> json.posts, synthesizedAnswer |-> json.synthesized_answer,
     persona |-> Undefined, queryTime |-> json.query_time,
     discoveredGalls |-> Coalesce(json.discovered_galls, Arr(<<>>)),
     postsCrawled |-> Coalesce(json.posts_crawled, Num(0))]

\* snake_case -> camelCase
RestToData(json) ==
    [posts |-> json.posts, synthesizedAnswer |-> json.synthesized_answer,
     persona |-> json.persona, queryTime |-> json.query_time,
     discoveredGalls |-> Coalesce(json.discovered_galls, Arr(<<>>)),
     postsCrawled |-> Coalesce(json.posts_crawled, Num(0))]

\* The Electron branch of search after the bridge call resolved.
SearchDoneBridge(result) ==
    [data |-> Obj(result), isLoading |-> FALSE, error |-> Null]

\* SearchDoneRest with an empty list of posts taken for a failed search.
SearchDoneRestEmptyFails(json) ==
    IF json.posts = Arr(<<>>)
    THEN [data |-> Null, isLoading |-> FALSE, error |-> Str("no result")]
    ELSE [data |-> Obj(RestToData(json)), isLoading |-> FALSE, error |-> Null]

\* The REST branch of search after response.json().
SearchDoneRest(json) ==
    [data |-> Obj(RestToData(json)), isLoading |-> FALSE, error |-> Null]

\* SearchCatch keeping the data of the state it finds.
SearchCatchKeepsData(err) ==
    [search EXCEPT !.isLoading = FALSE, !.error = ErrorText(err, "unknown error")]

\* The catch block of search.
SearchCatch(err) ==
    [data |-> Null, isLoading |-> FALSE, error |-> ErrorText(err, "unknown error")]

\* new Error(`검색 실패 (${response.status}): ${body}`)
SearchHttpError(resp) ==
    [isError |-> TRUE,
     message |-> "search failed (" \o ToString(resp.status) \o "): " \o resp.body]

NoSearchOp == [op |-> "none", id |-> 0, result |-> Null]

\* The body of search from its first setState on.
IssueSearch(q) ==
    /\ search' = SearchLoading
    /\ searchCalls' = searchCalls + 1
    /\ searchPending' = searchPending \cup
           {[id |-> searchCalls + 1, body |-> SearchRequestBody(q, 5)]}
    /\ searchLast' = [op |-> "start", id |-> searchCalls + 1, result |-> Null]

\* useSearch.reset
ResetSearchState ==
    /\ search' = SearchIdle
    /\ searchLast' = [op |-> "reset", id |-> 0, result |-> Null]

\* Search dropping the crawl in flight when a search is issued.
SearchCancelsCrawl(q) ==
    /\ searchCalls < MaxSearches
    /\ IF Blank(q)
       THEN UNCHANGED <<search, searchCalls, searchPending, searchLast>>
       ELSE IssueSearch(q)
    /\ crawl' = CrawlIdle
    /\ crawlPending' = {}
    /\ UNCHANGED <<host, crawlCalls, crawlLast, sidecarVars, mainVars, boardVars>>

\* search(query), called by any user of the hook.
Search(q) ==
    /\ searchCalls < MaxSearches
    /\ IF Blank(q)
       THEN UNCHANGED <<search, searchCalls, searchPending, searchLast>>
       ELSE IssueSearch(q)
    /\ UNCHANGED <<host, crawl, crawlPending, crawlCalls, crawlLast, sidecarVars, mainVars, boardVars>>

\* reset(), called by any user of the hook.
ResetSearch ==
    /\ ResetSearchState
    /\ UNCHANGED <<searchCalls, searchPending>>
    /\ UNCHANGED <<host, crawl, crawlPending, crawlCalls, crawlLast, sidecarVars, mainVars, boardVars>>

\* App.handleSearch: the form is submitted (its button is disabled while
\* loading) and a non-blank query is searched.
HandleSearch(q) ==
    /\ ~search.isLoading
    /\ searchCalls < MaxSearches
    /\ ~Blank(q)
    /\ IssueSearch(q)
    /\ UNCHANGED <<host, crawl, crawlPending, crawlCalls, crawlLast, sidecarVars, mainVars, boardVars>>

\* App's reset button, rendered only while there is data.
SearchResetClick ==
    /\ search.data # Null
    /\ ResetSearchState
    /\ UNCHANGED <<searchCalls, searchPending>>
    /\ UNCHANGED <<host, crawl, crawlPending, crawlCalls, crawlLast, sidecarVars, mainVars, boardVars>>

\* A pending search continues after its await and sets the state `next`.
SettleSearch(r, next, last) ==
    /\ r \in searchPending
    /\ search' = next
    /\ searchPending' = searchPending \ {r}
    /\ searchLast' = last
    /\ UNCHANGED searchCalls
    /\ UNCHANGED <<host, crawl, crawlPending, crawlCalls, crawlLast, sidecarVars, mainVars, boardVars>>

\* window.fingerPrince.search resolved.
SearchBridgeResolve(r, o) ==
    /\ host = "electron"
    /\ SettleSearch(r, SearchDoneBridge(IpcSearchResult(o)),
                    [op |-> "resolve", id |-> r.id, result |-> Obj(o)])

\* window.fingerPrince.search rejected.
SearchBridgeReject(r, err) ==
    /\ host = "electron"
    /\ SettleSearch(r, SearchCatch(err), [op |-> "reject", id |-> r.id, result |-> Null])

\* fetch rejected.
SearchFetchReject(r, err) ==
    /\ host = "web"
    /\ SettleSearch(r, SearchCatch(err), [op |-> "reject", id |-> r.id, result |-> Null])

\* The response is not OK: search throws and catches its own Error.
SearchResponseNotOk(r, resp) ==
    /\ host = "web"
    /\ SettleSearch(r, SearchCatch(SearchHttpError(resp)),
                    [op |-> "reject", id |-> r.id, result |-> Null])

\* The response is OK.
SearchResponseOk(r, o) ==
    /\ host = "web"
    /\ SettleSearch(r, SearchDoneRest(RestSearchJson(o)),
                    [op |-> "resolve", id |-> r.id, result |-> Obj(o)])

(***************************************************************************)
(* The renderer.                                                           *)
(***************************************************************************)
Init ==
    /\ host \in {"electron", "web"}
    /\ crawl = CrawlIdle
    /\ crawlPending = {}
    /\ crawlCalls = 0
    /\ crawlLast = NoCrawlOp
    /\ search = SearchIdle
    /\ searchPending = {}
    /\ searchCalls = 0
    /\ searchLast = NoSearchOp
    /\ pythonProcess = 0
    /\ proc = [p \in 1..MaxSpawns |-> "none"]
    /\ sigterm = [p \in 1..MaxSpawns |-> 0]
    /\ sidecarCall = "none"
    /\ platform \in {"darwin", "linux"}
    /\ app = "launching"
    /\ mainWindow = 0
    /\ openWindows = {}
    /\ boardPosts = <<>>
    /\ boardLoading = FALSE
    /\ expandedId = Null

NextCrawl ==
    \/ \E g \in GallIds : StartCrawl(g)
    \/ ResetCrawl
    \/ \E g \in GallIds : CrawlButtonClick(g)
    \/ \E r \in crawlPending, o \in CrawlResults : CrawlBridgeResolve(r, o)
    \/ \E r \in crawlPending, e \in Thrown : CrawlBridgeReject(r, e)
    \/ \E r \in crawlPending, e \in Thrown : CrawlFetchReject(r, e)
    \/ \E r \in crawlPending, b \in BadResponses : CrawlResponseNotOk(r, b)
    \/ \E r \in crawlPending, o \in CrawlResults : CrawlResponseOk(r, o)

NextSearch ==
    \/ \E q \in Queries : Search(q)
    \/ ResetSearch
    \/ \E q \in Queries : HandleSearch(q)
    \/ SearchResetClick
    \/ \E r \in searchPending, o \in SearchResults : SearchBridgeResolve(r, o)
    \/ \E r \in searchPending, e \in Thrown : SearchBridgeReject(r, e)
    \/ \E r \in searchPending, e \in Thrown : SearchFetchReject(r, e)
    \/ \E r \in searchPending, b \in BadResponses : SearchResponseNotOk(r, b)
    \/ \E r \in searchPending, o \in SearchResults : SearchResponseOk(r, o)

Next == NextCrawl \/ NextSearch

\* useCrawl alone, and useSearch alone: the two hooks share no state.
SpecCrawl == Init /\ [][NextCrawl]_vars

SpecSearch == Init /\ [][NextSearch]_vars

\* Both hooks, as App mounts them.
Spec == Init /\ [][Next]_vars

(***************************************************************************)
(* The Electron host's sidecar module (python-bridge/sidecar.ts).          *)
(* A child is "running" once spawned, or "failing" when the spawn failed    *)
(* and its error event is still to come; "errored" after the error event,   *)
(* "closed" after the close event.                                          *)
(***************************************************************************)
Pids == 1..MaxSpawns

\* The pid the next spawn returns.
NextPid == CHOOSE p \in Pids : proc[p] = "none" /\ \A q \in Pids : q < p => proc[q] # "none"

\* isSidecarRunning()
IsSidecarRunning == pythonProcess # 0

\* startPythonSidecar: with a handle it only logs; otherwise it spawns a
\* child, keeps its handle and subscribes to its close and error events.
DoStart ==
    /\ IF pythonProcess # 0
       THEN UNCHANGED <<pythonProcess, proc>>
       ELSE /\ \E p \in Pids : proc[p] = "none"
            /\ \E st \in {"running", "failing"} :
                   proc' = [proc EXCEPT ![NextPid] = st]
            /\ pythonProcess' = NextPid
    /\ sidecarCall' = "start"
    /\ UNCHANGED sigterm

\* stopPythonSidecar: SIGTERM to the child of the handle, which is dropped
\* at once.  The signal reaches a running child only.
DoStop ==
    /\ IF pythonProcess = 0
       THEN UNCHANGED <<pythonProcess, sigterm>>
       ELSE /\ sigterm' = [sigterm EXCEPT ![pythonProcess] =
                               IF proc[pythonProcess] = "running" THEN @ + 1 ELSE @]
            /\ pythonProcess' = 0
    /\ sidecarCall' = "stop"
    /\ UNCHANGED proc

\* startPythonSidecar(), called by any user of the module.
StartPythonSidecar ==
    /\ DoStart
    /\ UNCHANGED <<rendererVars, mainVars, boardVars>>

\* stopPythonSidecar(), called by any user of the module.
StopPythonSidecar ==
    /\ DoStop
    /\ UNCHANGED <<rendererVars, mainVars, boardVars>>

\* The close event of child p (it exited by itself, or after SIGTERM, or its
\* spawn had failed): the listener drops the module's handle.
ChildClose(p) ==
    /\ proc[p] \in {"running", "errored"}
    /\ proc' = [proc EXCEPT ![p] = "closed"]
    /\ pythonProcess' = 0
    /\ UNCHANGED <<sigterm, sidecarCall, rendererVars, mainVars, boardVars>>

\* The error event of child p, whose spawn failed: the listener drops the
\* module's handle.
ChildError(p) ==
    /\ proc[p] = "failing"
    /\ proc' = [proc EXCEPT ![p] = "errored"]
    /\ pythonProcess' = 0
    /\ UNCHANGED <<sigterm, sidecarCall, rendererVars, mainVars, boardVars>>

NextSidecar ==
    \/ StartPythonSidecar
    \/ StopPythonSidecar
    \/ \E p \in Pids : ChildClose(p)
    \/ \E p \in Pids : ChildError(p)

SpecSidecar == Init /\ [][NextSidecar]_vars

(***************************************************************************)
(* The Electron main process: the app's events drive the windows and the   *)
(* sidecar.                                                                *)
(***************************************************************************)
\* createWindow(): a new BrowserWindow, kept in mainWindow.
CreateWindow ==
    /\ mainWindow < MaxWindows
    /\ mainWindow' = mainWindow + 1
    /\ openWindows' = openWindows \cup {mainWindow + 1}

\* app.whenReady(): the first window is created and the sidecar started.
WhenReady ==
    /\ app = "launching"
    /\ app' = "ready"
    /\ CreateWindow
    /\ DoStart
    /\ UNCHANGED <<platform, rendererVars, boardVars>>

\* The last open window is closed: window-all-closed stops the sidecar and,
\* except on macOS, quits the app (before-quit then finds no handle left).
WindowAllClosed(w) ==
    /\ app = "ready"
    /\ openWindows = {w}
    /\ openWindows' = {}
    /\ DoStop
    /\ app' = IF platform # "darwin" THEN "quit" ELSE app
    /\ UNCHANGED <<platform, mainWindow, rendererVars, boardVars>>

\* activate (macOS, the dock icon is clicked): with no window open a window
\* is created.
Activate ==
    /\ app = "ready"
    /\ platform = "darwin"
    /\ IF openWindows = {}
       THEN CreateWindow
       ELSE UNCHANGED <<mainWindow, openWindows>>
    /\ UNCHANGED <<platform, app, sidecarVars, rendererVars, boardVars>>

\* The user quits the app: before-quit stops the sidecar, the windows are
\* closed without window-all-closed.
BeforeQuit ==
    /\ app = "ready"
    /\ app' = "quit"
    /\ DoStop
    /\ openWindows' = {}
    /\ UNCHANGED <<platform, mainWindow, rendererVars, boardVars>>

NextMain ==
    \/ WhenReady
    \/ \E w \in openWindows : WindowAllClosed(w)
    \/ Activate
    \/ BeforeQuit
    \/ \E p \in Pids : ChildClose(p)
    \/ \E p \in Pids : ChildError(p)

SpecMain == Init /\ [][NextMain]_vars

(***************************************************************************)
(* The result board (components/DCBoard.tsx) and the posts it lists        *)
(* (components/DCPost.tsx).  A post is kept by its id, its gallery and the *)
(* length of its body.                                                     *)
(***************************************************************************)
\* DCPost shows the first 280 characters of a body that is not expanded.
PreviewLength == 280

PostIds == {"1", "2"}
PostGallIds == {"a", "b"}

\* PostData: a post's id is unique within its gallery only.
PostData == [id : PostIds, gallId : PostGallIds,
             bodyLength : {PreviewLength, PreviewLength + 1}]

\* The lists of posts a search result can hold: no post twice.
PostLists ==
    {ps \in UNION {[1..n -> PostData] : n \in 0..MaxBoardPosts} :
        \A i, j \in DOMAIN ps :
            (ps[i].gallId = ps[j].gallId /\ ps[i].id = ps[j].id) => i = j}

\* DCPost: isTruncated
IsTruncated(post) == post.bodyLength > PreviewLength

\* The expanded prop DCBoard hands to the DCPost of `post`.
ExpandedProp(post) == expandedId = Str(post.id)

\* The posts on display, by position: none while the skeleton is shown.
Displayed == IF boardLoading THEN {} ELSE DOMAIN boardPosts

\* The displayed posts that are rendered expanded.
ExpandedPosts == {i \in Displayed : ExpandedProp(boardPosts[i])}

\* App renders the board again with the posts and the loading flag of
\* useSearch; a loading search has no data.  The board's state stays.
BoardRender(ps, loading) ==
    /\ loading => ps = <<>>
    /\ boardPosts' = ps
    /\ boardLoading' = loading
    /\ UNCHANGED <<expandedId, rendererVars, sidecarVars, mainVars>>

\* The user presses the expand button of the i-th displayed post, which
\* DCPost renders for a truncated post that is not expanded.
OnExpand(i) ==
    /\ i \in Displayed
    /\ ~ExpandedProp(boardPosts[i])
    /\ IsTruncated(boardPosts[i])
    /\ expandedId' = IF ExpandedProp(boardPosts[i]) THEN Null
                     ELSE Str(boardPosts[i].id)
    /\ UNCHANGED <<boardPosts, boardLoading, rendererVars, sidecarVars, mainVars>>

NextBoard ==
    \/ \E ps \in PostLists, loading \in BOOLEAN : BoardRender(ps, loading)
    \/ \E i \in 1..MaxBoardPosts : OnExpand(i)

SpecBoard == Init /\ [][NextBoard]_vars

(***************************************************************************)
(* Properties.                                                             *)
(***************************************************************************)

\* C1: no two crawl requests for the same gallery are in flight at once (a
\* second startCrawl for a gallery whose crawl is running is rejected).
C1_OneCrawlPerGallery ==
    \A r1, r2 \in crawlPending : r1.gallId = r2.gallId => r1 = r2

\* C2: the crawl status only moves idle -> running, running -> done,
\* running -> error, or from done/error to running; otherwise it is retained.
C2_StatusSteps ==
    [][\/ crawl'.status = crawl.status
       \/ <<crawl.status, crawl'.status>> \in
              {<<"idle", "running">>, <<"running", "done">>, <<"running", "error">>,
               <<"done", "running">>, <<"error", "running">>}]_vars

\* C3: at most one spawned Python backend process is alive at any time.
C3_OneBackendAlive ==
    Cardinality({p \in Pids : proc[p] = "running"}) <= 1

\* C4: isSidecarRunning() is true exactly when a spawned backend process is
\* still alive (spawned, and neither exited nor failed to start yet).
C4_RunningIffAlive ==
    IsSidecarRunning <=> (\E p \in Pids : proc[p] \in {"running", "failing"})

\* C5: after a search has completed with a backend outcome, useSearch holds
\* the state either transport gives for that outcome: the bridge's and the
\* REST path's end states are the same.
C5_SameStateOnBothTransports ==
    searchLast.op = "resolve" =>
        /\ search = SearchDoneRest(RestSearchJson(searchLast.result[2]))
        /\ search = SearchDoneBridge(IpcSearchResult(searchLast.result[2]))

\* C6: after a crawl that succeeded the status is done and the message is
\* the message the crawl operation returned, on either transport.
C6_MessageIsCrawlMessage ==
    crawlLast.op = "resolve" =>
        /\ crawl.status = "done"
        /\ crawl.message = crawlLast.result[2].message

\* C7 as stated: after a crawl request failed, the status is error, the
\* error text is not null and postsIndexed is unset.
C7_FailedCrawlCountUnset ==
    crawlLast.op = "reject" =>
        /\ crawl.status = "error"
        /\ crawl.error # Null
        /\ crawl.postsIndexed = Undefined

\* C7 as amended: after a crawl request failed (bridge rejected, fetch
\* rejected or response not OK), the status is error, the error text is not
\* null and postsIndexed is the number 0, its initial value.
C7_FailedCrawlIsError ==
    crawlLast.op = "reject" =>
        /\ crawl.status = "error"
        /\ crawl.error # Null
        /\ crawl.postsIndexed = Num(0)

\* A crawl request answered 502 has just failed.
C7_Witness ==
    /\ crawlLast.op = "reject"
    /\ crawl.status = "error"
    /\ crawl.error = Str("Crawl failed (502): CrawlUnreachable")

\* C8: a crawl that completes having indexed no post ends with status done,
\* postsIndexed 0 and no error.
C8_ZeroPostsIsDone ==
    (crawlLast.op = "resolve" /\ crawlLast.result[2].postsIndexed = Num(0)) =>
        /\ crawl.status = "done"
        /\ crawl.postsIndexed = Num(0)
        /\ crawl.error = Null

\* The second crawl issued has just completed with no post indexed.
C8_Witness ==
    /\ crawlLast.op = "resolve"
    /\ crawlLast.id = 2
    /\ crawlLast.result[2].postsIndexed = Num(0)
    /\ crawl.status = "done"

\* C9: a result held by useSearch has posts, persona, queryTime,
\* discoveredGalls and postsCrawled present and not null.
C9_FullShape ==
    search.data # Null =>
        \A f \in {"posts", "persona", "queryTime", "discoveredGalls", "postsCrawled"} :
            search.data[2][f] \notin {Null, Undefined}

C11_EmptyMatchIsResult ==
    (searchLast.op = "resolve" /\ searchLast.result[2].posts = Arr(<<>>)) =>
        /\ search.data # Null
        /\ search.data[2].posts = Arr(<<>>)
        /\ search.data[2].synthesizedAnswer = Null
        /\ search.error = Null
        /\ search.isLoading = FALSE

\* A search has just completed with an outcome that has no post.
C11_Witness ==
    /\ searchLast.op = "resolve"
    /\ searchLast.result[2].posts = Arr(<<>>)
    /\ search.data # Null
    /\ search.error = Null

\* C12: a step of useSearch (a search issued, completed or reset) leaves
\* useCrawl's state and its requests in flight as they are.
C12_SearchLeavesCrawl ==
    [][(\/ search' # search
        \/ searchPending' # searchPending
        \/ searchCalls' # searchCalls
        \/ searchLast' # searchLast)
       => UNCHANGED <<crawl, crawlPending, crawlCalls, crawlLast>>]_vars

\* A search has been issued and has completed while a crawl is running.
C12_Witness ==
    /\ searchLast.op \in {"resolve", "reject"}
    /\ crawl.status = "running"
    /\ crawlPending # {}

\* C13: whenever a main window is open, the host has started the sidecar
\* and has not stopped it since.
C13_WindowHasSidecar ==
    openWindows # {} => sidecarCall = "start"

\* C14: once stopPythonSidecar has been called, every spawned backend that
\* is still alive has been sent SIGTERM, and none more than once.
C14_StopSignalsAlive ==
    /\ \A p \in Pids : sigterm[p] <= 1
    /\ sidecarCall = "stop" =>
           \A p \in Pids : proc[p] = "running" => sigterm[p] = 1

\* C15: once no search is outstanding, the outcome shown is that of the
\* search issued last; and isLoading is false only when no search is
\* outstanding.
C15_LatestSearchShown ==
    /\ (searchPending = {} /\ searchLast.op \in {"resolve", "reject"}) =>
           searchLast.id = searchCalls
    /\ search.isLoading = FALSE => searchPending = {}

\* C16: at most one of isLoading, data # null and error # null holds.
C16_OneOfLoadingDataError ==
    /\ search.isLoading => (search.data = Null /\ search.error = Null)
    /\ ~(search.data # Null /\ search.error # Null)

\* The second search issued has failed after the first one gave a result.
C16_Witness ==
    /\ searchLast.op = "reject"
    /\ searchLast.id = 2
    /\ searchPending = {}
    /\ search.error # Null
    /\ search.data = Null

\* C17: at most one displayed post is expanded at any time, and expanding a
\* post leaves no other post expanded, whatever the list of result posts.
C17_OneExpanded ==
    /\ [](Cardinality(ExpandedPosts) <= 1)
    /\ [][\A i \in 1..MaxBoardPosts :
            (i \in Displayed /\ expandedId' = Str(boardPosts[i].id)
               /\ expandedId' # expandedId /\ UNCHANGED <<boardPosts, boardLoading>>)
            => ExpandedPosts' = {i}]_vars

====
